---- MODULE Spec2Model ----
(***************************************************************************)
(* Employee Management System: a JSON file of employee records behind two  *)
(* front ends, the HTTP API of src/app.py and the menu program of          *)
(* src/employee_management_system.py.  Both front ends use the same store  *)
(* class (EmployeeManagementSystem) on the same path, "employees.json".    *)
(*                                                                         *)
(* Every caller is one process (or request thread) working on the file.    *)
(* A Load and a Save are one step each; add_employee is a Load step        *)
(* (with the duplicate scan) followed by a Save step, so that the steps of *)
(* several callers interleave.                                             *)
(***************************************************************************)
EXTENDS Integers, Sequences, FiniteSets, TLC

\* ------------------------------------------------------------------ bounds
MaxRecords == 2
MaxAdds == 3

\* The callers are the two programs of the repository, which work on the same
\* file: a request thread of the API (src/app.py) and a run of the menu
\* program (src/employee_management_system.py).
Callers == {"http", "menu"}

\* ------------------------------------------------------- python values
\* A Python value is a type tag and its text (repr); "missing" is a key that
\* the dictionary does not hold.
Str(s) == [t |-> "str", v |-> s]
PyInt(s) == [t |-> "int", v |-> s]
PyFloat(s) == [t |-> "float", v |-> s]
Missing == [t |-> "missing", v |-> ""]

\* Python truthiness, as `not employee_data[field]` uses it.
Truthy(x) ==
    /\ x.t /= "missing"
    /\ ~(x.t = "str" /\ x.v = "")
    /\ ~(x.t \in {"int", "float"} /\ x.v \in {"0", "0.0"})

\* Mutant: the ids compared by their text alone, whatever their types.
PyEqText(a, b) == a.v = b.v

\* employee['id'] == employee_data['id'] on the values of the model: a str
\* never equals an int, two values of one type are equal when their texts are.
PyEq(a, b) == a.t = b.t /\ a.v = b.v

Employee(emp_id, name, department, salary) ==
    [id |-> emp_id, name |-> name, department |-> department, salary |-> salary]

NoRec == Employee(Missing, Missing, Missing, Missing)

\* --------------------------------------------------------------- JSON text
\* json.dump / json.load on the values above: a str becomes a JSON string, an
\* int or a float a JSON number written with repr; a number is read back as a
\* float when its text has a fraction part and as an int otherwise.
FloatTexts == {"50000.0", "0.0"}

Encode(x) ==
    IF x.t = "str" THEN [j |-> "string", text |-> x.v]
    ELSE IF x.t \in {"int", "float"} THEN [j |-> "number", text |-> x.v]
    ELSE [j |-> "absent", text |-> ""]

Decode(y) ==
    IF y.j = "string" THEN Str(y.text)
    ELSE IF y.j = "number"
         THEN (IF y.text \in FloatTexts THEN PyFloat(y.text) ELSE PyInt(y.text))
         ELSE Missing

EncodeObj(r) ==
    [id |-> Encode(r.id), name |-> Encode(r.name),
     department |-> Encode(r.department), salary |-> Encode(r.salary)]

DecodeObj(o) ==
    [id |-> Decode(o.id), name |-> Decode(o.name),
     department |-> Decode(o.department), salary |-> Decode(o.salary)]

Dump(data) == [i \in 1..Len(data) |-> EncodeObj(data[i])]
Parse(text) == [i \in 1..Len(text) |-> DecodeObj(text[i])]

\* -------------------------------------------------------------- the file
\* The backing file: absent, a JSON array of objects, text that is no JSON
\* (an empty or truncated file included), bytes that are no text, or a file
\* that cannot be opened for reading.
File(k, data) == [k |-> k, data |-> data]
AbsentFile == File("absent", <<>>)
MalformedFile == File("malformed", <<>>)
UndecodableFile == File("undecodable", <<>>)
UnreadableFile == File("unreadable", <<>>)
JsonFile(data) == File("json", Dump(data))
EmptyArrayFile == JsonFile(<<>>)

\* An array whose object has no "id" key: [{"name": "A", ...}].
NoIdFile == JsonFile(<<Employee(Missing, Str("A"), Str("Eng"), PyInt("50000"))>>)

InitialFiles ==
    {AbsentFile, EmptyArrayFile, MalformedFile, UndecodableFile, UnreadableFile,
     NoIdFile}

\* Mutant: the existence test always answers that no file exists.
ExistsNever(f) == FALSE

\* os.path.exists(path)
Exists(f) == f.k /= "absent"

\* open(path, 'r') and json.load(file): the exception raised, or "none".
ReadError(f) ==
    CASE f.k = "absent" -> "FileNotFoundError"
      [] f.k = "unreadable" -> "PermissionError"
      [] f.k = "undecodable" -> "UnicodeDecodeError"
      [] f.k = "malformed" -> "JSONDecodeError"
      [] OTHER -> "none"

\* except (FileNotFoundError, json.JSONDecodeError)
Caught(e) == e \in {"FileNotFoundError", "JSONDecodeError"}

Raised(e) == [exc |-> e, val |-> <<>>]
Returned(val) == [exc |-> "none", val |-> val]

LoadData(f) ==
    LET e == ReadError(f)
    IN  IF e = "none" THEN Returned(Parse(f.data))
        ELSE IF Caught(e) THEN Returned(<<>>)
        ELSE Raised(e)

\* open(path, 'w') and json.dump: the write succeeds, the open fails (the file
\* is as before), or the write fails after the open truncated the file.
WriteOutcomes == {"ok", "open_error", "write_error"}

\* Mutant: a successful write adds the new record to what the file holds,
\* instead of replacing the contents by the list given.
WrittenMerged(f, data, out) ==
    CASE out = "ok" /\ f.k = "json" /\ data /= <<>> ->
             File("json", f.data \o Dump(<<data[Len(data)]>>))
      [] out = "ok" -> JsonFile(data)
      [] out = "open_error" -> f
      [] OTHER -> MalformedFile

Written(f, data, out) ==
    CASE out = "ok" -> JsonFile(data)
      [] out = "open_error" -> f
      [] OTHER -> MalformedFile

\* _save_data: the file afterwards and the flag returned.
SaveData(f, data, out) == [file |-> Written(f, data, out), ok |-> out = "ok"]

\* ------------------------------------------------------------- the scan
\* for employee in all_employees: if employee['id'] == emp_id: return employee
\* The scan stops at the first match, and raises KeyError at an object that
\* has no "id" key.
RECURSIVE ScanFrom(_, _, _)
ScanFrom(all, emp_id, i) ==
    IF i > Len(all) THEN [exc |-> "none", found |-> FALSE, rec |-> NoRec]
    ELSE IF all[i].id = Missing THEN [exc |-> "KeyError", found |-> FALSE, rec |-> NoRec]
    ELSE IF PyEq(all[i].id, emp_id) THEN [exc |-> "none", found |-> TRUE, rec |-> all[i]]
    ELSE ScanFrom(all, emp_id, i + 1)

\* Mutant: the scan starts at the second record.
ScanFromSecond(all, emp_id) == ScanFrom(all, emp_id, 2)

Scan(all, emp_id) == ScanFrom(all, emp_id, 1)

\* search_employee
SearchEmployee(f, emp_id) ==
    LET ld == LoadData(f)
    IN  IF ld.exc /= "none" THEN [exc |-> ld.exc, found |-> FALSE, rec |-> NoRec]
        ELSE Scan(ld.val, emp_id)

\* view_all_employees
ViewAllEmployees(f) == LoadData(f)

\* Mutant: the new record is put in front.
Prepended(all, rec) == <<rec>> \o all

\* all_employees.append(employee_data)
Appended(all, rec) == Append(all, rec)

\* add_employee up to the call of _save_data: the exception raised, whether
\* the id was found, the snapshot loaded and the list to save.
AddBegin(f, rec) ==
    LET ld == LoadData(f)
        sc == Scan(ld.val, rec.id)
    IN  IF ld.exc /= "none"
        THEN [exc |-> ld.exc, dup |-> FALSE, snap |-> <<>>, all |-> <<>>]
        ELSE IF sc.exc /= "none"
        THEN [exc |-> sc.exc, dup |-> FALSE, snap |-> ld.val, all |-> <<>>]
        ELSE IF sc.found
        THEN [exc |-> "none", dup |-> TRUE, snap |-> ld.val, all |-> <<>>]
        ELSE [exc |-> "none", dup |-> FALSE, snap |-> ld.val,
              all |-> Appended(ld.val, rec)]

\* ---------------------------------------------------------- the HTTP API
RequiredFields == <<"id", "name", "department", "salary">>

Field(body, i) ==
    CASE i = 1 -> body.id
      [] i = 2 -> body.name
      [] i = 3 -> body.department
      [] OTHER -> body.salary

\* if field not in employee_data or not employee_data[field]
FieldBad(body, i) == ~Truthy(Field(body, i))

\* Mutant: the salary is not among the fields checked.
BadFieldsNoSalary(body) == {i \in 1..(Len(RequiredFields) - 1) : FieldBad(body, i)}

BadFields(body) == {i \in 1..Len(RequiredFields) : FieldBad(body, i)}

\* The first required field that fails the check, "" when none does.
Validate(body) ==
    IF BadFields(body) = {} THEN ""
    ELSE RequiredFields[CHOOSE i \in BadFields(body) : \A k \in BadFields(body) : i <= k]

\* f'Missing required field: {field}'
MissingMsg(field) ==
    CASE field = "id" -> "Missing required field: id"
      [] field = "name" -> "Missing required field: name"
      [] field = "department" -> "Missing required field: department"
      [] OTHER -> "Missing required field: salary"

\* The JSON bodies posted: every field present and truthy, or one of them
\* missing or falsy.
Bodies ==
    { b \in { Employee(i, n, d, s) :
                i \in {Str("E1"), PyInt("7"), Missing},
                n \in {Str("A"), Str("")},
                d \in {Str("Eng"), Missing},
                s \in {PyInt("50000"), PyInt("0")} } :
        Cardinality(BadFields(b)) <= 1 }

\* The <emp_id> segments requested; the route hands the segment over as a str.
UrlSegments == {"E1", "7", "X9"}
RouteArg(seg) == Str(seg)

\* The URL segment a client writes for an id: the text of the id.
UrlOf(emp_id) == emp_id.v

\* get_employee: the status and the record answered.
GetEmployeeResponse(f, seg) ==
    LET s == SearchEmployee(f, RouteArg(seg))
    IN  IF s.exc /= "none" THEN [code |-> "500", msg |-> s.exc, rec |-> NoRec]
        ELSE IF s.found THEN [code |-> "200", msg |-> "", rec |-> s.rec]
        ELSE [code |-> "404", msg |-> "Employee not found", rec |-> NoRec]

\* --------------------------------------------------------- the menu program
\* input(...).strip() on the texts typed.
IdInputs == {"E1", " 7 "}
Strip(s) == IF s = " 7 " THEN "7" ELSE s

\* float(input("Enter Salary: ")): the float, or ValueError.
SalaryInputs == {"50000", "abc"}
ParseFloat(s) ==
    IF s = "50000" THEN [exc |-> "none", val |-> PyFloat("50000.0")]
    ELSE [exc |-> "ValueError", val |-> Missing]

\* The f-string of the two display workflows: emp['id'], emp['name'],
\* emp['department'] and emp['salary']:.2f.
FormatError(rec) ==
    IF rec.id = Missing \/ rec.name = Missing \/ rec.department = Missing
       \/ rec.salary = Missing
    THEN "KeyError"
    ELSE IF rec.salary.t \notin {"int", "float"} THEN "ValueError"
    ELSE "none"

PrintError(all) ==
    IF \E i \in 1..Len(all) : FormatError(all[i]) /= "none"
    THEN FormatError(all[CHOOSE i \in 1..Len(all) :
                            /\ FormatError(all[i]) /= "none"
                            /\ \A k \in 1..(i - 1) : FormatError(all[k]) = "none"])
    ELSE "none"

\* ------------------------------------------------------------------ state
VARIABLES
    file,        \* the backing file
    pc,          \* per caller: "new", "idle", "saving", "exited", "crashed"
    pending,     \* per caller in add_employee: the record, snapshot and list to save
    last,        \* the operation completed last and its result
    added,       \* history: the records whose Add reported success, in order
    fresh,       \* history: the file was absent or an empty array at the start
    overlapped,  \* history: some step was taken while another caller was inside Add
    saveFailed   \* history: some Save has failed

vars == <<file, pc, pending, last, added, fresh, overlapped, saveFailed>>

\* The front end a caller goes through.
front == [c \in Callers |-> c]

NoPending == [rec |-> NoRec, snap |-> <<>>, all |-> <<>>]

Resp(c, op, code, msg, arg, body, before) ==
    [op |-> op, code |-> code, msg |-> msg, arg |-> arg,
     body |-> body, before |-> before]

NoResp == Resp("", "none", "", "", NoRec, <<>>, <<>>)

Init ==
    /\ file \in InitialFiles
    /\ pc = [c \in Callers |-> "new"]
    /\ pending = [c \in Callers |-> NoPending]
    /\ last = NoResp
    /\ added = <<>>
    /\ fresh = (file \in {AbsentFile, EmptyArrayFile})
    /\ overlapped = FALSE
    /\ saveFailed = FALSE

\* A step of c while another caller is between its Load and its Save.
Overlap(c) == \E d \in Callers : d /= c /\ pc[d] = "saving"

Track(c) == overlapped' = (overlapped \/ Overlap(c))

\* What an exception does to the caller: the API answers 500 and serves on,
\* the menu program ends.
AfterException(c) == IF front[c] = "menu" THEN "crashed" ELSE "idle"


\* The responses of the two front ends to the results of add_employee.
DupCode(fr) == IF fr = "http" THEN "400" ELSE "False"
DupMsg(fr) ==
    IF fr = "http" THEN "Employee ID already exists"
    ELSE "Error: An employee with this ID already exists."
SavedCode(fr) == IF fr = "http" THEN "201" ELSE "True"
SavedMsg(fr) ==
    IF fr = "http" THEN "Employee added successfully" ELSE "Employee added successfully!"
SaveErrorCode(fr) == IF fr = "http" THEN "400" ELSE "False"
SaveErrorMsg(fr) ==
    IF fr = "http" THEN "Error saving employee" ELSE "Failed to add employee."
ExcCode(fr) == IF fr = "http" THEN "500" ELSE "exception"

AddOps == {"post", "menu_add"}

\* Key(emp_id): the argument of a lookup, kept in the shape of a record.
Key(emp_id) == Employee(emp_id, Missing, Missing, Missing)

\* ---------------------------------------------------------------- actions
\* __init__: create the file with an empty array when no file exists.
Initialize(c) ==
    /\ pc[c] = "new"
    /\ \E out \in WriteOutcomes :
        LET created == Written(file, <<>>, out)
        IN  IF Exists(file)
            THEN /\ file' = file
                 /\ pc' = [pc EXCEPT ![c] = "idle"]
                 /\ last' = Resp(c, "init", "ok", "exists", NoRec, <<>>, <<>>)
            ELSE /\ file' = created
                 /\ pc' = [pc EXCEPT ![c] = IF out = "ok" THEN "idle" ELSE "crashed"]
                 /\ last' = IF out = "ok"
                            THEN Resp(c, "init", "ok", "created", NoRec, <<>>, <<>>)
                            ELSE Resp(c, "init", "exception", out, NoRec, <<>>, <<>>)
    /\ Track(c)
    /\ UNCHANGED <<pending, added, fresh, saveFailed>>

\* add_employee from its start to the call of _save_data, for the request
\* `op` of caller c with the record rec.
AddStart(c, op, rec) ==
    LET b == AddBegin(file, rec)
        fr == front[c]
    IN  /\ IF b.exc /= "none"
           THEN /\ pc' = [pc EXCEPT ![c] = AfterException(c)]
                /\ last' = Resp(c, op, ExcCode(fr), b.exc, rec, <<>>, b.snap)
                /\ UNCHANGED pending
           ELSE IF b.dup
           THEN /\ last' = Resp(c, op, DupCode(fr), DupMsg(fr), rec, <<>>, b.snap)
                /\ UNCHANGED <<pc, pending>>
           ELSE /\ Len(b.snap) < MaxRecords
                /\ Len(added) + Cardinality({d \in Callers : pc[d] = "saving"}) < MaxAdds
                /\ pc' = [pc EXCEPT ![c] = "saving"]
                /\ pending' = [pending EXCEPT ![c] =
                                  [rec |-> rec, snap |-> b.snap, all |-> b.all]]
                /\ UNCHANGED last
        /\ Track(c)
        /\ UNCHANGED <<file, added, fresh, saveFailed>>

\* The call of _save_data that ends add_employee, and the answer to the caller.
AddSave(c) ==
    /\ pc[c] = "saving"
    /\ \E out \in WriteOutcomes :
        LET s == SaveData(file, pending[c].all, out)
            fr == front[c]
            op == IF fr = "http" THEN "post" ELSE "menu_add"
        IN  /\ file' = s.file
            /\ added' = IF s.ok THEN Append(added, pending[c].rec) ELSE added
            /\ saveFailed' = (saveFailed \/ ~s.ok)
            /\ last' = IF s.ok
                       THEN Resp(c, op, SavedCode(fr), SavedMsg(fr), pending[c].rec,
                                 <<>>, pending[c].snap)
                       ELSE Resp(c, op, SaveErrorCode(fr), SaveErrorMsg(fr),
                                 pending[c].rec, <<>>, pending[c].snap)
    /\ pc' = [pc EXCEPT ![c] = "idle"]
    /\ pending' = [pending EXCEPT ![c] = NoPending]
    /\ Track(c)
    /\ UNCHANGED fresh

\* GET /api/employees
GetEmployees(c) ==
    /\ pc[c] = "idle" /\ front[c] = "http"
    /\ LET ld == ViewAllEmployees(file)
       IN  last' = IF ld.exc /= "none"
                   THEN Resp(c, "get_all", "500", ld.exc, NoRec, <<>>, <<>>)
                   ELSE Resp(c, "get_all", "200", "", NoRec, ld.val, <<>>)
    /\ Track(c)
    /\ UNCHANGED <<file, pc, pending, added, fresh, saveFailed>>

\* POST /api/employees: the validation of the body, then add_employee.
PostEmployee(c) ==
    /\ pc[c] = "idle" /\ front[c] = "http"
    /\ \E body \in Bodies :
        IF Validate(body) /= ""
        THEN /\ last' = Resp(c, "post", "400", MissingMsg(Validate(body)), body, <<>>, <<>>)
             /\ Track(c)
             /\ UNCHANGED <<file, pc, pending, added, fresh, saveFailed>>
        ELSE AddStart(c, "post", body)

\* GET /api/employees/<emp_id>
GetEmployee(c) ==
    /\ pc[c] = "idle" /\ front[c] = "http"
    /\ \E seg \in UrlSegments :
        LET r == GetEmployeeResponse(file, seg)
        IN  last' = Resp(c, "get_one", r.code, r.msg, Key(RouteArg(seg)),
                         IF r.code = "200" THEN <<r.rec>> ELSE <<>>, <<>>)
    /\ Track(c)
    /\ UNCHANGED <<file, pc, pending, added, fresh, saveFailed>>

\* Menu option 1, add_employee_workflow.
AddEmployeeWorkflow(c) ==
    /\ pc[c] = "idle" /\ front[c] = "menu"
    /\ \E idIn \in IdInputs, salIn \in SalaryInputs :
        LET p == ParseFloat(salIn)
        IN  IF p.exc /= "none"
            THEN /\ last' = Resp(c, "menu_add", "invalid",
                                 "Invalid salary amount. Please enter a number.",
                                 NoRec, <<>>, <<>>)
                 /\ Track(c)
                 /\ UNCHANGED <<file, pc, pending, added, fresh, saveFailed>>
            ELSE AddStart(c, "menu_add",
                          Employee(Str(Strip(idIn)), Str("A"), Str("Eng"), p.val))

\* Menu option 2, view_all_employees_workflow.
ViewAllEmployeesWorkflow(c) ==
    /\ pc[c] = "idle" /\ front[c] = "menu"
    /\ LET ld == ViewAllEmployees(file)
           e == IF ld.exc /= "none" THEN ld.exc ELSE PrintError(ld.val)
       IN  IF e /= "none"
           THEN /\ pc' = [pc EXCEPT ![c] = "crashed"]
                /\ last' = Resp(c, "menu_view", "exception", e, NoRec, <<>>, <<>>)
           ELSE /\ pc' = pc
                /\ last' = Resp(c, "menu_view", "printed",
                                IF ld.val = <<>> THEN "No employees found." ELSE "",
                                NoRec, ld.val, <<>>)
    /\ Track(c)
    /\ UNCHANGED <<file, pending, added, fresh, saveFailed>>

\* Menu option 3, search_employee_workflow.
SearchEmployeeWorkflow(c) ==
    /\ pc[c] = "idle" /\ front[c] = "menu"
    /\ \E idIn \in IdInputs \cup {"X9"} :
        LET emp_id == Str(Strip(idIn))
            s == SearchEmployee(file, emp_id)
            e == IF s.exc /= "none" THEN s.exc
                 ELSE IF s.found THEN FormatError(s.rec) ELSE "none"
        IN  IF e /= "none"
            THEN /\ pc' = [pc EXCEPT ![c] = "crashed"]
                 /\ last' = Resp(c, "menu_search", "exception", e, Key(emp_id), <<>>, <<>>)
            ELSE /\ pc' = pc
                 /\ last' = IF s.found
                            THEN Resp(c, "menu_search", "printed", "Employee Found",
                                      Key(emp_id), <<s.rec>>, <<>>)
                            ELSE Resp(c, "menu_search", "printed", "Employee not found.",
                                      Key(emp_id), <<>>, <<>>)
    /\ Track(c)
    /\ UNCHANGED <<file, pending, added, fresh, saveFailed>>

\* Menu option 4: the loop ends.
MainExit(c) ==
    /\ pc[c] = "idle" /\ front[c] = "menu"
    /\ pc' = [pc EXCEPT ![c] = "exited"]
    /\ last' = Resp(c, "menu_exit", "printed", "Exiting the system. Goodbye!",
                    NoRec, <<>>, <<>>)
    /\ Track(c)
    /\ UNCHANGED <<file, pending, added, fresh, saveFailed>>

\* Any other menu input.
MainInvalidChoice(c) ==
    /\ pc[c] = "idle" /\ front[c] = "menu"
    /\ last' = Resp(c, "menu_invalid", "printed",
                    "Invalid choice. Please select a number between 1 and 4.",
                    NoRec, <<>>, <<>>)
    /\ Track(c)
    /\ UNCHANGED <<file, pc, pending, added, fresh, saveFailed>>

Next ==
    \E c \in Callers :
        \/ Initialize(c)
        \/ GetEmployees(c)
        \/ PostEmployee(c)
        \/ GetEmployee(c)
        \/ AddEmployeeWorkflow(c)
        \/ ViewAllEmployeesWorkflow(c)
        \/ SearchEmployeeWorkflow(c)
        \/ MainExit(c)
        \/ MainInvalidChoice(c)
        \/ AddSave(c)

Spec == Init /\ [][Next]_vars


\* ------------------------------------------------------------------ claims
\* The persisted array as a reader of the file sees it.
Stored == IF file.k = "json" THEN Parse(file.data) ELSE <<>>

WithId(all, emp_id) == {i \in 1..Len(all) : all[i].id = emp_id}

SavedCodes == {"201", "True"}
DupMsgs == {"Employee ID already exists", "Error: An employee with this ID already exists."}
SaveErrorMsgs == {"Error saving employee", "Failed to add employee."}
ExcCodes == {"500", "exception"}

\* One caller at a time, on a store that began empty, with no failed Save.
Clean == fresh /\ ~overlapped /\ ~saveFailed

\* C1: from an empty store, whatever the interleaving of the callers' Load and
\* Save steps, the persisted array holds at most one record per id.
C1_AtMostOneRecordPerId ==
    fresh => \A i, k \in 1..Len(Stored) : Stored[i].id = Stored[k].id => i = k

\* Two Adds of one id both reported success (their Loads saw the same snapshot),
\* and the store holds two records.
C1_Witness ==
    /\ fresh /\ overlapped /\ ~saveFailed
    /\ Len(Stored) = 2
    /\ \E i, k \in 1..Len(added) : i < k /\ added[i].id = added[k].id

\* C2: with one caller, an Add whose id is in the store reports failure, writes
\* nothing, and the store keeps exactly one record with that id, the first added.
C2_DuplicateRejected ==
    /\ [](  (~overlapped /\ last.op \in AddOps /\ last.msg \in DupMsgs)
            => /\ last.code \in {"400", "False"}
               /\ file = JsonFile(last.before)
               /\ Cardinality(WithId(Stored, last.arg.id)) = 1
               /\ Clean => \E i \in 1..Len(added) :
                             /\ added[i].id = last.arg.id
                             /\ \A k \in 1..(i - 1) : added[k].id /= last.arg.id
                             /\ \A n \in WithId(Stored, last.arg.id) : Stored[n] = added[i] )
    /\ [][ (~overlapped' /\ last' /= last /\ last'.op \in AddOps /\ last'.msg \in DupMsgs)
            => (file' = file /\ added' = added /\ pc' = pc /\ pending' = pending) ]_vars

\* A rejected record that differs from the stored record of its id.
C2_Witness ==
    /\ Clean /\ last.op \in AddOps /\ last.msg \in DupMsgs
    /\ \E n \in WithId(Stored, last.arg.id) : Stored[n] /= last.arg

\* C3: after an Add that reported success, the lookup by the record's id gives
\* the record back, through search_employee and through GET /api/employees/{id}
\* after a POST answered 201.
C3_RoundTrip ==
    /\ (last.op \in AddOps /\ last.code \in SavedCodes)
        => SearchEmployee(file, last.arg.id) =
               [exc |-> "none", found |-> TRUE, rec |-> last.arg]
    /\ (last.op = "post" /\ last.code = "201")
        => GetEmployeeResponse(file, UrlOf(last.arg.id)) =
               [code |-> "200", msg |-> "", rec |-> last.arg]

\* C4: with one caller on a store that began empty, a listing returns exactly
\* the records whose Add reported success, in the order of the Adds.
C4_ListInOrderAdded ==
    (Clean /\ last.op \in {"get_all", "menu_view"} /\ last.code \notin ExcCodes)
        => /\ last.body = added
           /\ \A i, k \in 1..Len(added) : added[i].id = added[k].id => i = k

C4_Witness ==
    /\ Clean /\ last.op \in {"get_all", "menu_view"}
    /\ Len(last.body) = 2 /\ last.body = added

\* C5: a successful Add leaves in the file its own snapshot and its record, and
\* nothing else: a record another caller saved after the snapshot was loaded
\* is overwritten.
C5_LaterSaveOverwrites ==
    (last.op \in AddOps /\ last.code \in SavedCodes)
        => /\ file = JsonFile(Append(last.before, last.arg))
           /\ \A i \in 1..Len(added) :
                (added[i].id /= last.arg.id /\ WithId(last.before, added[i].id) = {})
                    => WithId(Stored, added[i].id) = {}

\* The lost update: two Adds of different ids both loaded the empty store, both
\* reported success, no Save failed, and the store holds only the later record.
C5_LostUpdate ==
    /\ fresh /\ ~saveFailed
    /\ Len(added) = 2 /\ added[1].id /= added[2].id
    /\ last.op \in AddOps /\ last.code \in SavedCodes /\ last.before = <<>>
    /\ Stored = <<added[2]>>

\* C6: Load never fails: whatever the file is, Load returns a list, the empty
\* one unless the file is a JSON array, and no operation surfaces a read error.
C6_LoadNeverFails ==
    /\ last.msg \notin {"PermissionError", "UnicodeDecodeError"}
    /\ (last.op \in {"get_all", "menu_view"} /\ file.k /= "json")
        => (last.code \notin ExcCodes /\ last.body = <<>>)

\* C7: a POST whose body lacks a required field, or holds a falsy one, is
\* answered 400 with the missing field, adds nothing and leaves the file as it
\* is, whether or not the id is in the store.
FalsyOrMissing(x) == x.t = "missing" \/ x.v \in {"", "0", "0.0"}

InvalidBody(b) ==
    \E x \in {b.id, b.name, b.department, b.salary} : FalsyOrMissing(x)

C7_InvalidPostRejected ==
    /\ []( (last.op = "post" /\ InvalidBody(last.arg))
            => /\ last.code = "400"
               /\ last.msg \notin DupMsgs \cup SaveErrorMsgs )
    /\ [][ (last' /= last /\ last'.op = "post" /\ InvalidBody(last'.arg))
            => (file' = file /\ added' = added /\ pc' = pc /\ pending' = pending) ]_vars

\* A POST without salary for an id that is in the store, answered 400 for the
\* salary.
C7_Witness ==
    /\ last.op = "post" /\ last.code = "400"
    /\ last.msg = "Missing required field: salary"
    /\ WithId(Stored, last.arg.id) /= {}

\* C8: apart from read errors, no Add, ListAll or FindById ends in an
\* exception, and no run of the menu program is ended by one.
C8_NoFatalError ==
    (last.op /= "init" /\ last.msg \notin {"PermissionError", "UnicodeDecodeError"})
        => last.code \notin ExcCodes

C10_FailedAddLosesNothing ==
    /\ (~overlapped /\ last.op \in AddOps /\ last.msg \in SaveErrorMsgs)
        => ViewAllEmployees(file) = Returned(last.before)
    /\ (~overlapped /\ fresh)
        => \A i \in 1..Len(added) : \E n \in 1..Len(Stored) : Stored[n] = added[i]

====
